---- MODULE Spec2Model ----
(***************************************************************************)
(* A model of the engine's frame loop (engine/src/lib.rs, Engine::new,     *)
(* Engine::load_scene, Engine::run, Engine::handle_events,                 *)
(* Engine::render_scene) and of the Vulkan renderer state it drives        *)
(* (renderer/src/vulkan.rs, VulkanRendererState::new, recreate_swapchain,  *)
(* create_frame_buffers, begin_frame, acquire_swapchain, draw_data).       *)
(*                                                                         *)
(* The Vulkan library (vulkano), the GPU and the window system (winit)     *)
(* are the environment: each library call's outcome and each poll's events *)
(* are chosen with \E from the outcomes the library can report, and the    *)
(* GPU finishes the frames it was given at times of its own.               *)
(* EngineStats (frame_count, timestamps) and EngineDebug are written by    *)
(* the loop but read by no decision of it, and are left out.               *)
(***************************************************************************)
EXTENDS Integers, Sequences, FiniteSets, TLC

VARIABLES
    pc,                      \* position in Engine::new / load_scene / run
    devices,                 \* PhysicalDevice::enumerate(&instance), in order
    capabilities,            \* surface.capabilities(physical_device)
    window,                  \* the winit window: whether it still exists, its inner size
    new_result,              \* what VulkanRendererState::new returned
    quit,                    \* Engine.quit
    recreate_swapchain,      \* Engine.recreate_swapchain
    render_pass,             \* Engine.render_pass
    render_pipeline,         \* Engine.render_pipeline
    vertex_buffer,           \* Engine.scene.vertex_buffer
    frame_buffers,           \* Engine.frame_buffers
    swapchain,               \* VulkanRendererState.swapchain
    swapchain_images,        \* VulkanRendererState.swapchain_images
    current_swapchain_image, \* VulkanRendererState.current_swapchain_image
    viewport,                \* VulkanRendererState.dynamic_state.viewports
    frame_future,            \* VulkanRendererState.frame_future
    command_buffer,          \* draw_data's local command_buffer
    future,                  \* draw_data's local future: the chain it has built
    frame_state,             \* the frame scheduler's state in this iteration
    last_outcome,            \* the last outcome a library call reported
    draw_result,             \* what the last draw_data call returned
    in_flight,               \* frames given to the GPU that it has not finished
    history,                 \* what has happened so far (observation only)
    world,                   \* the specs World: entities alive, entities created
    entities,                \* Scene.entities
    scene_last,              \* the last call on the scene or the world
    vector_call              \* the last call of a Vector method

vars == <<pc, devices, capabilities, window, new_result, quit,
          recreate_swapchain, render_pass, render_pipeline, vertex_buffer,
          frame_buffers, swapchain, swapchain_images, current_swapchain_image,
          viewport, frame_future, command_buffer, future, frame_state,
          last_outcome, draw_result, in_flight, history, world, entities,
          scene_last, vector_call>>

sceneVars == <<world, entities, scene_last>>
mathVars == <<vector_call>>

(***************************************************************************)
(* Bounds of the model.                                                    *)
(***************************************************************************)
\* Physical devices enumerated, and queue families per device.
MaxDevices == 2
MaxQueueFamilies == 1
\* capabilities.min_image_count ranges over 1..MaxMinImageCount.
MaxMinImageCount == 2
\* Window sizes are 0x0 (minimized) and w x 1 for w in 1..MaxDim.
MaxDim == 2
\* Swapchains created in one run (the first one has id 1).
MaxSwapchains == 2
\* Events delivered in one poll of the events loop.
MaxEvents == 2
\* Top-level actors of a scene asset, and children of one actor.
MaxActors == 2
MaxChildren == 1
\* Entities created in the world in one run.
MaxEntities == 4
\* The largest component of a vector.
MaxCoord == 2

(***************************************************************************)
(* Values.                                                                 *)
(***************************************************************************)
NoSwapchain == [id |-> 0, num_images |-> 0, format |-> "None",
                dimensions |-> <<0, 0>>, present_mode |-> "None"]

Dimensions == {<<0, 0>>} \cup {<<w, 1>> : w \in 1..MaxDim}
ZeroSized(d) == d[1] = 0 \/ d[2] = 0
UsableDimensions == {d \in Dimensions : ~ZeroSized(d)}

\* window.get_inner_size() is None once the window is gone.
WindowGone == [alive |-> FALSE, size |-> <<0, 0>>]
WindowStates == {[alive |-> TRUE, size |-> d] : d \in Dimensions} \cup {WindowGone}

\* A queue family: does it support graphics, and what does
\* surface.is_supported(q) answer (Ok(true), Ok(false) or Err). The query is
\* only made for a family that supports graphics (&& short-circuits).
QueueFamilies ==
    [graphics : {TRUE}, surface_support : {"true", "false", "err"}]
        \cup {[graphics |-> FALSE, surface_support |-> "true"]}

RECURSIVE SeqsUpTo(_, _)
SeqsUpTo(S, n) ==
    IF n = 0 THEN {<<>>}
    ELSE LET shorter == SeqsUpTo(S, n - 1)
         IN shorter \cup {Append(s, x) : s \in {t \in shorter : Len(t) = n - 1}, x \in S}

PhysicalDevices == SeqsUpTo(QueueFamilies, MaxQueueFamilies)
DeviceLists == SeqsUpTo(PhysicalDevices, MaxDevices)

FormatLists == {<<"B8G8R8A8Unorm">>, <<"R8G8B8A8Srgb", "B8G8R8A8Unorm">>}
Capabilities ==
    [min_image_count : 1..MaxMinImageCount,
     supported_formats : FormatLists,
     present_modes : {{"Fifo"}, {"Fifo", "Mailbox"}, {"Fifo", "Immediate"}}]

(***************************************************************************)
(* renderer/src/lib.rs, get_window_dimensions.                             *)
(***************************************************************************)
get_window_dimensions(w) ==
    IF w.alive THEN [ok |-> TRUE, dimensions |-> w.size, err |-> ""]
    ELSE [ok |-> FALSE, dimensions |-> <<0, 0>>, err |-> "Window no longer exists"]

\* The images of a swapchain: one per requested image, each of the
\* swapchain's dimensions.
SwapchainImages(sc) ==
    [i \in 1..sc.num_images |->
        [swapchain |-> sc.id, index |-> i - 1, dimensions |-> sc.dimensions]]

(***************************************************************************)
(* renderer/src/vulkan.rs, VulkanRendererState::new.                       *)
(***************************************************************************)
\* Mutant of SelectPhysicalDevice: the devices are filtered by their queue
\* families and the first one that qualifies is taken.
SelectPhysicalDevice_filtered(devs) ==
    LET hits == {i \in 1..Len(devs) :
                    \E k \in 1..Len(devs[i]) :
                        devs[i][k].graphics /\ devs[i][k].surface_support = "true"}
    IN IF hits = {} THEN (IF Len(devs) = 0 THEN 0 ELSE 1)
       ELSE CHOOSE i \in hits : \A j \in hits : i <= j

\* PhysicalDevice::enumerate(&instance).next(): the index of the device
\* taken, 0 for None.
SelectPhysicalDevice(devs) == IF Len(devs) = 0 THEN 0 ELSE 1

\* Mutant of QueueFamilyQualifies: a failing surface-support query counts
\* as support (unwrap_or(true)).
QueueFamilyQualifies_lenient(q) ==
    q.graphics /\ (IF q.surface_support = "false" THEN FALSE ELSE TRUE)

\* The closure given to queue_families().find(..).
QueueFamilyQualifies(q) ==
    q.graphics /\ (IF q.surface_support = "true" THEN TRUE ELSE FALSE)

\* queue_families().find(..): the index of the first qualifying family of
\* the device, 0 for None.
FindGraphicsQueueFamily(dev) ==
    LET hits == {i \in 1..Len(dev) : QueueFamilyQualifies(dev[i])}
    IN IF hits = {} THEN 0
       ELSE CHOOSE i \in hits : \A j \in hits : i <= j

\* Mutant of SelectPresentMode: the lowest-latency mode the surface
\* offers is taken, Immediate before Mailbox.
SelectPresentMode_lowest_latency(caps) ==
    IF "Immediate" \in caps.present_modes THEN "Immediate"
    ELSE IF "Mailbox" \in caps.present_modes THEN "Mailbox" ELSE "Fifo"

SelectPresentMode(caps) ==
    IF "Mailbox" \in caps.present_modes THEN "Mailbox" ELSE "Fifo"

NewFailed(msg) ==
    [ok |-> FALSE, err |-> msg, physical_device |-> 0, queue_family |-> 0,
     device |-> FALSE, swapchain |-> NoSwapchain, swapchain_images |-> <<>>,
     current_swapchain_image |-> 0, viewport |-> <<>>, frame_future |-> "None"]

\* lib is what the library calls of new report: "Ok", or the first call
\* that fails ("InstanceErr": Instance::new or build_vk_surface,
\* "DeviceErr": Device::new, "SwapchainErr": capabilities or Swapchain::new).
NewLibOutcomes == {"Ok", "InstanceErr", "DeviceErr", "SwapchainErr"}

VulkanRendererStateNew(devs, caps, w, lib) ==
    LET pd == SelectPhysicalDevice(devs)
        qf == IF pd = 0 THEN 0 ELSE FindGraphicsQueueFamily(devs[pd])
        dims == get_window_dimensions(w)
        sc == [id |-> 1,
               num_images |-> caps.min_image_count + 1,
               format |-> caps.supported_formats[1],
               dimensions |-> dims.dimensions,
               present_mode |-> SelectPresentMode(caps)]
    IN IF lib = "InstanceErr" THEN NewFailed("InstanceErr")
       ELSE IF pd = 0 THEN NewFailed("No devices available!")
       ELSE IF qf = 0 THEN NewFailed("No graphics queues available!")
       ELSE IF lib = "DeviceErr" THEN NewFailed("DeviceErr")
       ELSE IF ~dims.ok THEN NewFailed(dims.err)
       ELSE IF lib = "SwapchainErr" \/ ZeroSized(dims.dimensions)
            THEN NewFailed("SwapchainErr")
       ELSE [ok |-> TRUE, err |-> "", physical_device |-> pd,
             queue_family |-> qf, device |-> TRUE, swapchain |-> sc,
             swapchain_images |-> SwapchainImages(sc),
             current_swapchain_image |-> 0, viewport |-> <<>>,
             frame_future |-> "None"]

(***************************************************************************)
(* renderer/src/vulkan.rs, the operations of the frame loop as functions   *)
(* of the renderer's fields and of the outcome the library reports.        *)
(***************************************************************************)
\* Mutant of init_viewport: width and height are taken the wrong way round.
init_viewport_swapped(images) ==
    << <<images[1].dimensions[2], images[1].dimensions[1]>> >>

\* init_viewport: the viewport takes the dimensions of swapchain image 0.
init_viewport(images) == <<images[1].dimensions>>

\* Mutant of recreate_swapchain_result: the fields are assigned before the
\* result is matched, so a soft failure leaves a replaced swapchain behind.
recreate_swapchain_result_eager(sc, images, w, lib) ==
    LET dims == get_window_dimensions(w)
        new_swapchain == [sc EXCEPT !.id = sc.id + 1,
                                    !.dimensions = dims.dimensions]
    IN IF ~dims.ok
         THEN [ret |-> "Err", swapchain |-> sc, swapchain_images |-> images]
       ELSE IF lib = "Ok"
         THEN [ret |-> "OkTrue", swapchain |-> new_swapchain,
               swapchain_images |-> SwapchainImages(new_swapchain)]
       ELSE IF lib = "UnsupportedDimensions"
         THEN [ret |-> "OkFalse", swapchain |-> new_swapchain,
               swapchain_images |-> <<>>]
       ELSE [ret |-> "Err", swapchain |-> sc, swapchain_images |-> images]

\* Mutant of recreate_swapchain_result: the image count is asked for anew
\* (one more than the swapchain had) instead of being kept.
recreate_swapchain_result_grow(sc, images, w, lib) ==
    LET dims == get_window_dimensions(w)
        new_swapchain == [sc EXCEPT !.id = sc.id + 1,
                                    !.num_images = sc.num_images + 1,
                                    !.dimensions = dims.dimensions]
    IN IF ~dims.ok
         THEN [ret |-> "Err", swapchain |-> sc, swapchain_images |-> images]
       ELSE IF lib = "Ok"
         THEN [ret |-> "OkTrue", swapchain |-> new_swapchain,
               swapchain_images |-> SwapchainImages(new_swapchain)]
       ELSE IF lib = "UnsupportedDimensions"
         THEN [ret |-> "OkFalse", swapchain |-> sc, swapchain_images |-> images]
       ELSE [ret |-> "Err", swapchain |-> sc, swapchain_images |-> images]

\* recreate_swapchain. lib is what recreate_with_dimension reports: "Ok",
\* "UnsupportedDimensions" or "OtherErr". ret is "OkTrue", "OkFalse" or "Err".
recreate_swapchain_result(sc, images, w, lib) ==
    LET dims == get_window_dimensions(w)
        new_swapchain == [sc EXCEPT !.id = sc.id + 1,
                                    !.dimensions = dims.dimensions]
    IN IF ~dims.ok
         THEN [ret |-> "Err", swapchain |-> sc, swapchain_images |-> images]
       ELSE IF lib = "Ok"
         THEN [ret |-> "OkTrue", swapchain |-> new_swapchain,
               swapchain_images |-> SwapchainImages(new_swapchain)]
       ELSE IF lib = "UnsupportedDimensions"
         THEN [ret |-> "OkFalse", swapchain |-> sc, swapchain_images |-> images]
       ELSE [ret |-> "Err", swapchain |-> sc, swapchain_images |-> images]

\* What recreate_with_dimension can report for the window as it is: a
\* zero-sized extent is never accepted, and UnsupportedDimensions can also
\* be reported while the window is being resized.
RecreateOutcomes(sc, w) ==
    {"UnsupportedDimensions", "OtherErr"}
        \cup (IF w.alive /\ ~ZeroSized(w.size) /\ sc.id < MaxSwapchains
              THEN {"Ok"} ELSE {})

\* Mutant of create_frame_buffers: the frame buffers are pushed in the
\* reverse order of the images.
create_frame_buffers_reversed(rp, images, fail_at) ==
    IF rp = "Vulkan"
      THEN IF fail_at \in 1..Len(images)
             THEN [ok |-> FALSE, frame_buffers |-> <<>>]
             ELSE [ok |-> TRUE,
                   frame_buffers |->
                       [i \in 1..Len(images) |->
                           [kind |-> "Vulkan",
                            image |-> images[Len(images) + 1 - i]]]]
      ELSE [ok |-> FALSE, frame_buffers |-> <<>>]

\* Mutant of create_frame_buffers: a failing build ends the loop over the
\* images and the frame buffers built so far are returned.
create_frame_buffers_partial(rp, images, fail_at) ==
    IF rp = "Vulkan"
      THEN [ok |-> TRUE,
            frame_buffers |->
                [i \in 1..(IF fail_at \in 1..Len(images)
                             THEN fail_at - 1 ELSE Len(images)) |->
                    [kind |-> "Vulkan", image |-> images[i]]]]
      ELSE [ok |-> FALSE, frame_buffers |-> <<>>]

\* create_frame_buffers. fail_at is the image whose Framebuffer build fails
\* (0: none does).
create_frame_buffers(rp, images, fail_at) ==
    IF rp = "Vulkan"
      THEN IF fail_at \in 1..Len(images)
             THEN [ok |-> FALSE, frame_buffers |-> <<>>]
             ELSE [ok |-> TRUE,
                   frame_buffers |->
                       [i \in 1..Len(images) |->
                           [kind |-> "Vulkan", image |-> images[i]]]]
      ELSE [ok |-> FALSE, frame_buffers |-> <<>>]

\* Mutant of begin_frame: the None arm does nothing.
begin_frame_no_init(ff) == ff

\* Mutant of begin_frame: a fresh future is stored whatever the field holds.
begin_frame_fresh(ff) == "Now"

\* begin_frame.
begin_frame(ff) == IF ff = "None" THEN "Now" ELSE ff

\* Mutant of acquire_swapchain: every acquire failure is answered like
\* OutOfDate.
acquire_swapchain_swallow(o, cur) ==
    IF o.kind = "Ok"
      THEN [ret |-> "Some", current_swapchain_image |-> o.image]
    ELSE [ret |-> "None", current_swapchain_image |-> cur]

\* Mutant of acquire_swapchain: OutOfDate is propagated like any other
\* acquire failure.
acquire_swapchain_bail(o, cur) ==
    IF o.kind = "Ok"
      THEN [ret |-> "Some", current_swapchain_image |-> o.image]
    ELSE [ret |-> "Err", current_swapchain_image |-> cur]

\* Mutant of acquire_swapchain: the image index the library handed back is
\* stored before the result is matched.
acquire_swapchain_store(o, cur) ==
    IF o.kind = "Ok"
      THEN [ret |-> "Some", current_swapchain_image |-> o.image]
    ELSE IF o.kind = "OutOfDate"
      THEN [ret |-> "None", current_swapchain_image |-> o.image]
    ELSE [ret |-> "Err", current_swapchain_image |-> cur]

\* acquire_swapchain. o is what acquire_next_image reports:
\* [kind |-> "Ok", image |-> i], [kind |-> "OutOfDate"] or [kind |-> "Err"].
\* ret is "Some", "None" or "Err".
acquire_swapchain(o, cur) ==
    IF o.kind = "Ok"
      THEN [ret |-> "Some", current_swapchain_image |-> o.image]
    ELSE IF o.kind = "OutOfDate"
      THEN [ret |-> "None", current_swapchain_image |-> cur]
    ELSE [ret |-> "Err", current_swapchain_image |-> cur]

AcquireOutcomes(sc) ==
    {[kind |-> "Ok", image |-> i] : i \in 0..(sc.num_images - 1)}
        \cup {[kind |-> "OutOfDate", image |-> 0], [kind |-> "Err", image |-> 0]}

\* render_scene, line 319: the clear colour given to draw_data.
ClearColour == <<0, 0, 1, 1>>

\* Mutant of record_commands: the render pass is begun and ended with no
\* draw command between.
record_commands_no_draw(fbs, cur, pipeline, vb, vp, lib) ==
    IF cur + 1 > Len(fbs)
      THEN [ret |-> "Panic", command_buffer |-> <<>>]
    ELSE IF lib # "Ok" \/ fbs[cur + 1].kind # "Vulkan"
      THEN [ret |-> "Err", command_buffer |-> <<>>]
    ELSE [ret |-> "Ok",
          command_buffer |->
              <<[cmd |-> "begin_render_pass", frame_buffer |-> fbs[cur + 1],
                 clear_values |-> <<ClearColour>>],
                [cmd |-> "end_render_pass"]>>]

\* draw_data, lines 437-471: the frame buffer lookup and the command
\* buffer. ret is "Ok", "Err" or "Panic" (index out of bounds). vp is
\* dynamic_state.viewports.
record_commands(fbs, cur, pipeline, vb, vp, lib) ==
    IF cur + 1 > Len(fbs)
      THEN [ret |-> "Panic", command_buffer |-> <<>>]
    ELSE IF lib # "Ok" \/ fbs[cur + 1].kind # "Vulkan"
            \/ pipeline # "Vulkan" \/ vb # "Vulkan"
      THEN [ret |-> "Err", command_buffer |-> <<>>]
    ELSE [ret |-> "Ok",
          command_buffer |->
              <<[cmd |-> "begin_render_pass", frame_buffer |-> fbs[cur + 1],
                 clear_values |-> <<ClearColour>>],
                [cmd |-> "draw", pipeline |-> pipeline, viewports |-> vp,
                 vertex_buffers |-> <<vb>>],
                [cmd |-> "end_render_pass"]>>]

\* draw_data, lines 473-478: the chain after join and then_execute. ff is
\* the future taken from the field, acquired the image of acquire_future.
join_then_execute(ff, acquired, cb) ==
    <<[op |-> "join", first |-> ff, second |-> [acquire_future |-> acquired]],
      [op |-> "then_execute", command_buffer |-> cb]>>

\* Mutant of present_and_signal: the first image of the swapchain is
\* presented whatever image was acquired.
present_and_signal_first(chain, image) ==
    chain \o <<[op |-> "then_swapchain_present", image |-> 0],
               [op |-> "then_signal_fence_and_flush"]>>

\* draw_data, lines 479-484: the chain after then_swapchain_present and
\* then_signal_fence_and_flush. image is self.current_swapchain_image.
present_and_signal(chain, image) ==
    chain \o <<[op |-> "then_swapchain_present", image |-> image],
               [op |-> "then_signal_fence_and_flush"]>>

\* draw_data, lines 473-478: frame_future.take().unwrap().join(..)
\* .then_execute(..)?. The future is taken out of the field either way.
then_execute(ff, lib) ==
    IF ff = "None" THEN [ret |-> "Panic", frame_future |-> "None"]
    ELSE IF lib = "Ok" THEN [ret |-> "Ok", frame_future |-> "None"]
    ELSE [ret |-> "Err", frame_future |-> "None"]

\* Mutant of flush_result: a flush failure other than OutOfDate is
\* propagated with ? instead of being logged.
flush_result_bail(o) ==
    IF o = "Ok" THEN [ret |-> "OkTrue", frame_future |-> "Fence", logged |-> FALSE]
    ELSE IF o = "OutOfDate"
      THEN [ret |-> "OkFalse", frame_future |-> "Now", logged |-> FALSE]
    ELSE [ret |-> "Err", frame_future |-> "None", logged |-> FALSE]

\* Mutant of flush_result: on OutOfDate the field is left as take() left it.
flush_result_no_reset(o) ==
    IF o = "Ok" THEN [ret |-> "OkTrue", frame_future |-> "Fence", logged |-> FALSE]
    ELSE IF o = "OutOfDate"
      THEN [ret |-> "OkFalse", frame_future |-> "None", logged |-> FALSE]
    ELSE [ret |-> "OkTrue", frame_future |-> "Now", logged |-> TRUE]

\* draw_data, lines 479-503: present, flush, and the match on the result.
\* o is what then_signal_fence_and_flush reports: "Ok", "OutOfDate", "Err".
flush_result(o) ==
    IF o = "Ok" THEN [ret |-> "OkTrue", frame_future |-> "Fence", logged |-> FALSE]
    ELSE IF o = "OutOfDate"
      THEN [ret |-> "OkFalse", frame_future |-> "Now", logged |-> FALSE]
    ELSE [ret |-> "OkTrue", frame_future |-> "Now", logged |-> TRUE]

(***************************************************************************)
(* engine/src/lib.rs.                                                      *)
(***************************************************************************)
Events == {"CloseRequested", "Resized", "Other"}
PolledEvents == SeqsUpTo(Events, MaxEvents)

\* Mutant of handle_events: each event assigns both locals, so that the
\* last event of the poll decides.
handle_events_last(events, old_quit, old_recreate) ==
    [quit |-> Len(events) > 0 /\ events[Len(events)] = "CloseRequested",
     recreate_swapchain |-> Len(events) > 0 /\ events[Len(events)] = "Resized"]

\* handle_events: the closure run over the polled events, then the two
\* assignments to self.quit and self.recreate_swapchain.
handle_events(events, old_quit, old_recreate) ==
    [quit |-> \E i \in 1..Len(events) : events[i] = "CloseRequested",
     recreate_swapchain |-> \E i \in 1..Len(events) : events[i] = "Resized"]

\* Mutant of render_scene: the result of draw_data is ignored.
render_scene_ignore(ret, old_recreate) == old_recreate

\* render_scene: the flag after draw_data returned ret.
render_scene(ret, old_recreate) ==
    IF ret = "OkFalse" THEN TRUE ELSE old_recreate

(***************************************************************************)
(* engine/src/scene.rs and the specs World it is given.                    *)
(***************************************************************************)
\* An actor of a scene asset: its children are actors without children.
LeafActors == {[children |-> <<>>]}
ActorAssets == [children : SeqsUpTo(LeafActors, MaxChildren)]
\* SceneAsset.actors.
SceneAssets == SeqsUpTo(ActorAssets, MaxActors)

\* A World in which no entity was created yet. Entities are numbered in
\* the order of their creation.
EmptyWorld == [alive |-> {}, created |-> 0]

\* Scene::default(), an empty world, and no call made yet.
NoSceneCall ==
    [op |-> "none", ret |-> "none", asset |-> <<>>, tracked_actors |-> 0]

SceneDefault ==
    /\ world = EmptyWorld
    /\ entities = <<>>
    /\ scene_last = NoSceneCall

\* world.create_entity() and builder.build(), n times.
create_entities(w, n) ==
    [alive |-> w.alive \cup {w.created + i : i \in 1..n},
     created |-> w.created + n]

\* world.delete_entity(e): Err for an entity that is not alive.
delete_entity(w, e) ==
    IF e \in w.alive
      THEN [ok |-> TRUE, world |-> [w EXCEPT !.alive = @ \ {e}]]
      ELSE [ok |-> FALSE, world |-> w]

\* Scene::load may fail before the asset is there: to_absolute_path,
\* File::open, serde_json::from_reader.
SceneLoadOutcomes == {"Ok", "PathErr", "OpenErr", "ParseErr"}

\* Mutant of scene_load: the children of an actor get an entity each, too.
scene_load_children(ents, w, asset, lib) ==
    IF lib # "Ok" THEN [ret |-> "Err", entities |-> ents, world |-> w]
    ELSE LET RECURSIVE Count(_)
             Count(i) == IF i = 0 THEN 0
                         ELSE Count(i - 1) + 1 + Len(asset[i].children)
             n == Count(Len(asset))
         IN [ret |-> "Ok",
             entities |-> ents \o [i \in 1..n |-> w.created + i],
             world |-> create_entities(w, n)]

\* Scene::load: one entity per entry of asset.actors, pushed in order.
scene_load(ents, w, asset, lib) ==
    IF lib # "Ok" THEN [ret |-> "Err", entities |-> ents, world |-> w]
    ELSE [ret |-> "Ok",
          entities |-> ents \o [i \in 1..Len(asset) |-> w.created + i],
          world |-> create_entities(w, Len(asset))]

\* Scene::unload: the loop over entities.drain(0..). The entities before
\* the first one whose deletion fails are deleted; the Drain is dropped at
\* the return, Ok or Err, and takes every entity out of the list.
scene_unload(ents, w) ==
    LET failing == {i \in 1..Len(ents) : ~delete_entity(w, ents[i]).ok}
        stop == IF failing = {} THEN Len(ents) + 1
                ELSE CHOOSE i \in failing : \A j \in failing : i <= j
        deleted == {ents[i] : i \in 1..(stop - 1)}
    IN [ret |-> IF failing = {} THEN "Ok" ELSE "Err",
        entities |-> <<>>,
        world |-> [w EXCEPT !.alive = @ \ deleted]]

(***************************************************************************)
(* core/src/math/vector.rs: the Vector trait over Vector2, Vector3 and     *)
(* Vector4. A vector is the sequence of its components, which are small    *)
(* integers here. The f32 results are non-negative: the record             *)
(* [sq |-> n] stands for the non-negative number whose square is n, so     *)
(* that the integer m is [sq |-> m * m] and its square root is [sq |-> m], *)
(* an integer or not.                                                      *)
(***************************************************************************)
VectorDims == {2, 3, 4}
Components == 0..MaxCoord
Vectors(n) == [1..n -> Components]

\* The non-negative integer m as an f32 result.
F32(m) == [sq |-> m * m]

\* f32::sqrt of a result that is an integer.
sqrt(x) == [sq |-> CHOOSE m \in 0..x.sq : m * m = x.sq]

\* x * x for a result x.
Squared(x) == [sq |-> x.sq * x.sq]

\* impl Sub for Vector2, Vector3, Vector4: component by component.
sub(a, b) == [i \in 1..Len(a) |-> a[i] - b[i]]

\* magnitude_squared of Vector2, Vector3, Vector4: the sum of the squares
\* of the components.
magnitude_squared(v) ==
    LET RECURSIVE Sum(_)
        Sum(i) == IF i = 0 THEN 0 ELSE Sum(i - 1) + v[i] * v[i]
    IN F32(Sum(Len(v)))

\* Vector::magnitude.
magnitude(v) == sqrt(magnitude_squared(v))

\* Vector::distance.
distance(self, other) == magnitude(sub(other, self))

\* Vector::distance_squared: the body is that of distance.
distance_squared(self, other) == magnitude(sub(other, self))

\* No call on a vector made yet.
NoVectorCall == [self |-> <<>>, other |-> <<>>, op |-> "none", ret |-> <<>>]
VectorDefault == vector_call = NoVectorCall

(***************************************************************************)
(* The state machine.                                                      *)
(***************************************************************************)
NoHistory ==
    [loaded |-> FALSE,            \* load_scene has returned Ok
     close_delivered |-> FALSE,   \* a CloseRequested event was polled
     stale_pending |-> FALSE,     \* draw_data returned Ok(false), no rebuild since
     soft_fail_pending |-> FALSE, \* recreate returned Ok(false), no Ok(true) since
     resized_polled |-> 0,        \* Resized events polled in this iteration
     recreate_calls |-> 0,        \* recreate_swapchain calls in this iteration
     logged |-> FALSE]            \* draw_data printed an error in this iteration

\* One device with one qualifying queue family.
DefaultDevices == <<  <<[graphics |-> TRUE, surface_support |-> "true"]>>  >>
DefaultCapabilities ==
    [min_image_count |-> 1, supported_formats |-> <<"B8G8R8A8Unorm">>,
     present_modes |-> {"Fifo"}]

\* Engine::new, lines 185-200: the fields of a new Engine around renderer r.
EngineFields(r) ==
    [quit |-> FALSE, recreate_swapchain |-> FALSE, render_pass |-> "None",
     render_pipeline |-> "None", vertex_buffer |-> "None",
     frame_buffers |-> <<>>,
     swapchain |-> r.swapchain, swapchain_images |-> r.swapchain_images,
     current_swapchain_image |-> r.current_swapchain_image,
     viewport |-> r.viewport, frame_future |-> r.frame_future]

\* Before Engine::new: the inputs of VulkanRendererState::new. The device
\* list and the surface's capabilities are independent inputs; each is
\* varied with the other at its default.
InitNew ==
    /\ pc = "start"
    /\ \/ devices \in DeviceLists /\ capabilities = DefaultCapabilities
       \/ devices = DefaultDevices /\ capabilities \in Capabilities
    /\ window \in WindowStates
    /\ new_result = NewFailed("")
    /\ quit = FALSE
    /\ recreate_swapchain = FALSE
    /\ render_pass = "None"
    /\ render_pipeline = "None"
    /\ vertex_buffer = "None"
    /\ frame_buffers = <<>>
    /\ swapchain = NoSwapchain
    /\ swapchain_images = <<>>
    /\ current_swapchain_image = 0
    /\ viewport = <<>>
    /\ frame_future = "None"
    /\ command_buffer = <<>>
    /\ future = <<>>
    /\ frame_state = "Idle"
    /\ last_outcome = "None"
    /\ draw_result = "None"
    /\ in_flight = 0
    /\ history = NoHistory
    /\ SceneDefault
    /\ VectorDefault

\* Engine::new: VulkanRendererState::new, then the window is given the
\* configured size cfg, then the Engine is built.
EngineNew ==
    /\ pc = "start"
    /\ \E lib \in NewLibOutcomes, cfg \in Dimensions :
         LET r == VulkanRendererStateNew(devices, capabilities, window, lib)
             e == EngineFields(r)
         IN /\ new_result' = r
            /\ pc' = IF r.ok THEN "constructed" ELSE "init_failed"
            /\ window' = IF r.ok THEN [alive |-> TRUE, size |-> cfg] ELSE window
            /\ quit' = e.quit
            /\ recreate_swapchain' = e.recreate_swapchain
            /\ render_pass' = e.render_pass
            /\ render_pipeline' = e.render_pipeline
            /\ vertex_buffer' = e.vertex_buffer
            /\ frame_buffers' = e.frame_buffers
            /\ swapchain' = e.swapchain
            /\ swapchain_images' = e.swapchain_images
            /\ current_swapchain_image' = e.current_swapchain_image
            /\ viewport' = e.viewport
            /\ frame_future' = e.frame_future
    /\ UNCHANGED <<sceneVars, mathVars, devices, capabilities, command_buffer, future,
                   frame_state,
                   last_outcome, draw_result, in_flight, history>>

NextNew == EngineNew

SpecNew == InitNew /\ [][NextNew]_vars

\* After Engine::new returned Ok: the engines the frame loop starts from.
RunCapabilities ==
    {c \in Capabilities : /\ c.supported_formats = DefaultCapabilities.supported_formats
                          /\ c.present_modes = DefaultCapabilities.present_modes}

Init ==
    /\ pc = "constructed"
    /\ devices = DefaultDevices
    /\ capabilities \in RunCapabilities
    /\ window \in {w \in WindowStates : w.alive}
    /\ \E d \in UsableDimensions :
         new_result = VulkanRendererStateNew(devices, capabilities,
                                             [alive |-> TRUE, size |-> d], "Ok")
    /\ quit = EngineFields(new_result).quit
    /\ recreate_swapchain = EngineFields(new_result).recreate_swapchain
    /\ render_pass = EngineFields(new_result).render_pass
    /\ render_pipeline = EngineFields(new_result).render_pipeline
    /\ vertex_buffer = EngineFields(new_result).vertex_buffer
    /\ frame_buffers = EngineFields(new_result).frame_buffers
    /\ swapchain = EngineFields(new_result).swapchain
    /\ swapchain_images = EngineFields(new_result).swapchain_images
    /\ current_swapchain_image = EngineFields(new_result).current_swapchain_image
    /\ viewport = EngineFields(new_result).viewport
    /\ frame_future = EngineFields(new_result).frame_future
    /\ command_buffer = <<>>
    /\ future = <<>>
    /\ frame_state = "Idle"
    /\ last_outcome = "None"
    /\ draw_result = "None"
    /\ in_flight = 0
    /\ history = NoHistory
    /\ SceneDefault
    /\ VectorDefault

envVars == <<devices, capabilities, new_result>>

\* Engine::load_scene. lib is the first library call that fails, or "Ok".
LoadSceneOutcomes ==
    {"Ok", "VertexBufferErr", "ShaderErr", "RenderPassErr", "PipelineErr",
     "FrameBufferErr"}

\* How many of load_scene's four assignments are made before it ends.
LoadSceneStage(lib) ==
    CASE lib = "VertexBufferErr" -> 0
      [] lib \in {"ShaderErr", "RenderPassErr"} -> 1
      [] lib = "PipelineErr" -> 2
      [] lib = "FrameBufferErr" -> 3
      [] OTHER -> 4

LoadScene ==
    /\ pc = "constructed"
    /\ ~history.loaded
    /\ \E lib \in LoadSceneOutcomes :
         LET n == LoadSceneStage(lib)
             fb == create_frame_buffers("Vulkan", swapchain_images,
                                        IF lib = "FrameBufferErr" THEN 1 ELSE 0)
         IN /\ vertex_buffer' = IF n >= 1 THEN "Vulkan" ELSE vertex_buffer
            /\ render_pass' = IF n >= 2 THEN "Vulkan" ELSE render_pass
            /\ render_pipeline' = IF n >= 3 THEN "Vulkan" ELSE render_pipeline
            /\ viewport' = IF n >= 3 THEN init_viewport(swapchain_images)
                           ELSE viewport
            /\ frame_buffers' = IF n >= 4 THEN fb.frame_buffers ELSE frame_buffers
            /\ pc' = IF n = 4 THEN "constructed"
                     ELSE IF n = 0 THEN "load_failed" ELSE "panicked"
            /\ history' = [history EXCEPT !.loaded = (n = 4)]
            /\ last_outcome' = lib
    /\ UNCHANGED <<envVars, sceneVars, mathVars, future, in_flight, window, quit, recreate_swapchain, swapchain,
                   swapchain_images, current_swapchain_image, frame_future,
                   command_buffer, frame_state, draw_result>>

\* Engine::run is entered.
Run ==
    /\ pc = "constructed"
    /\ pc' = "begin_frame"
    /\ UNCHANGED <<envVars, sceneVars, mathVars, future, in_flight, window, quit, recreate_swapchain, render_pass,
                   render_pipeline, vertex_buffer, frame_buffers, swapchain,
                   swapchain_images, current_swapchain_image, viewport,
                   frame_future, command_buffer, frame_state, last_outcome,
                   draw_result, history>>

\* run, line 251: self.renderer.begin_frame().
BeginFrame ==
    /\ pc = "begin_frame"
    /\ frame_future' = begin_frame(frame_future)
    /\ future' = <<>>
    /\ frame_state' = "FrameBegun"
    /\ last_outcome' = "None"
    /\ draw_result' = "None"
    /\ history' = [history EXCEPT !.resized_polled = 0, !.recreate_calls = 0,
                                  !.logged = FALSE]
    /\ pc' = "handle_events"
    /\ UNCHANGED <<envVars, sceneVars, mathVars, in_flight, window, quit, recreate_swapchain, render_pass,
                   render_pipeline, vertex_buffer, frame_buffers, swapchain,
                   swapchain_images, current_swapchain_image, viewport,
                   command_buffer>>

\* run, lines 253-255: handle_events, then the test of the flag. The window
\* changes size only with a Resized event, and may be gone at any poll.
HandleEvents ==
    /\ pc = "handle_events"
    /\ \E events \in PolledEvents, w \in WindowStates :
         LET h == handle_events(events, quit, recreate_swapchain)
         IN /\ ~window.alive => w = window
            /\ (w.alive /\ w # window)
                   => \E i \in 1..Len(events) : events[i] = "Resized"
            /\ window' = w
            /\ quit' = h.quit
            /\ recreate_swapchain' = h.recreate_swapchain
            /\ history' = [history EXCEPT
                   !.resized_polled =
                       Cardinality({i \in 1..Len(events) : events[i] = "Resized"}),
                   !.close_delivered =
                       @ \/ \E i \in 1..Len(events) : events[i] = "CloseRequested"]
            /\ pc' = IF h.recreate_swapchain THEN "recreate_swapchain"
                     ELSE "acquire_swapchain"
    /\ UNCHANGED <<envVars, sceneVars, mathVars, future, in_flight, render_pass, render_pipeline, vertex_buffer,
                   frame_buffers, swapchain, swapchain_images,
                   current_swapchain_image, viewport, frame_future,
                   command_buffer, frame_state, last_outcome, draw_result>>

\* Mutant of RecreateSwapchain: the continue is missing, so that after
\* Ok(false) the iteration goes on to draw.
RecreateSwapchain_no_continue ==
    /\ pc = "recreate_swapchain"
    /\ \E lib \in RecreateOutcomes(swapchain, window) :
         LET r == recreate_swapchain_result(swapchain, swapchain_images, window, lib)
         IN /\ swapchain' = r.swapchain
            /\ swapchain_images' = r.swapchain_images
            /\ last_outcome' = IF ~window.alive THEN "WindowGone"
                               ELSE IF lib = "Ok" THEN "RecreateOk" ELSE lib
            /\ pc' = CASE r.ret = "OkTrue" -> "create_frame_buffers"
                       [] r.ret = "OkFalse" -> "acquire_swapchain"
                       [] OTHER -> "returned_err"
            /\ frame_state' = frame_state
            /\ history' = [history EXCEPT
                   !.recreate_calls = @ + 1,
                   !.soft_fail_pending =
                       IF r.ret = "OkFalse" THEN TRUE
                       ELSE IF r.ret = "OkTrue" THEN FALSE ELSE @]
    /\ UNCHANGED <<envVars, sceneVars, mathVars, future, in_flight, window, quit, recreate_swapchain, render_pass,
                   render_pipeline, vertex_buffer, frame_buffers,
                   current_swapchain_image, viewport, frame_future,
                   command_buffer, draw_result>>

\* Mutant of RecreateSwapchain: the recreation waits until the GPU has
\* finished the frames it was given.
RecreateSwapchain_wait_idle ==
    /\ pc = "recreate_swapchain"
    /\ \E lib \in RecreateOutcomes(swapchain, window) :
         LET r == recreate_swapchain_result(swapchain, swapchain_images, window, lib)
         IN /\ swapchain' = r.swapchain
            /\ swapchain_images' = r.swapchain_images
            /\ in_flight' = 0
            /\ last_outcome' = IF ~window.alive THEN "WindowGone"
                               ELSE IF lib = "Ok" THEN "RecreateOk" ELSE lib
            /\ pc' = CASE r.ret = "OkTrue" -> "create_frame_buffers"
                       [] r.ret = "OkFalse" -> "begin_frame"
                       [] OTHER -> "returned_err"
            /\ frame_state' = IF r.ret = "OkFalse" THEN "Idle" ELSE frame_state
            /\ history' = [history EXCEPT
                   !.recreate_calls = @ + 1,
                   !.soft_fail_pending =
                       IF r.ret = "OkFalse" THEN TRUE
                       ELSE IF r.ret = "OkTrue" THEN FALSE ELSE @]
    /\ UNCHANGED <<envVars, sceneVars, mathVars, future, window, quit, recreate_swapchain, render_pass,
                   render_pipeline, vertex_buffer, frame_buffers,
                   current_swapchain_image, viewport, frame_future,
                   command_buffer, draw_result>>

\* run, lines 256-258: recreate_swapchain()?, and continue on Ok(false).
RecreateSwapchain ==
    /\ pc = "recreate_swapchain"
    /\ \E lib \in RecreateOutcomes(swapchain, window) :
         LET r == recreate_swapchain_result(swapchain, swapchain_images, window, lib)
         IN /\ swapchain' = r.swapchain
            /\ swapchain_images' = r.swapchain_images
            /\ last_outcome' = IF ~window.alive THEN "WindowGone"
                               ELSE IF lib = "Ok" THEN "RecreateOk" ELSE lib
            /\ pc' = CASE r.ret = "OkTrue" -> "create_frame_buffers"
                       [] r.ret = "OkFalse" -> "begin_frame"
                       [] OTHER -> "returned_err"
            /\ frame_state' = IF r.ret = "OkFalse" THEN "Idle" ELSE frame_state
            /\ history' = [history EXCEPT
                   !.recreate_calls = @ + 1,
                   !.soft_fail_pending =
                       IF r.ret = "OkFalse" THEN TRUE
                       ELSE IF r.ret = "OkTrue" THEN FALSE ELSE @]
    /\ UNCHANGED <<envVars, sceneVars, mathVars, future, in_flight, window, quit, recreate_swapchain, render_pass,
                   render_pipeline, vertex_buffer, frame_buffers,
                   current_swapchain_image, viewport, frame_future,
                   command_buffer, draw_result>>

\* Mutant of CreateFrameBuffers: the render pipeline is dropped with the
\* frame buffers of the old swapchain.
CreateFrameBuffers_invalidate ==
    /\ pc = "create_frame_buffers"
    /\ \E fail_at \in 0..Len(swapchain_images) :
         LET r == create_frame_buffers(render_pass, swapchain_images, fail_at)
         IN /\ viewport' = init_viewport(swapchain_images)
            /\ frame_buffers' = IF r.ok THEN r.frame_buffers ELSE frame_buffers
            /\ render_pipeline' = "None"
            /\ recreate_swapchain' = IF r.ok THEN FALSE ELSE recreate_swapchain
            /\ last_outcome' = IF r.ok THEN "FrameBuffersOk" ELSE "FrameBufferErr"
            /\ pc' = IF r.ok THEN "acquire_swapchain" ELSE "returned_err"
            /\ history' = [history EXCEPT
                   !.stale_pending = IF r.ok THEN FALSE ELSE @]
    /\ UNCHANGED <<envVars, sceneVars, mathVars, future, in_flight, window, quit, render_pass,
                   vertex_buffer, swapchain, swapchain_images,
                   current_swapchain_image, frame_future, command_buffer,
                   frame_state, draw_result>>

\* run, lines 260-262: the frame buffers are rebuilt and the flag cleared.
CreateFrameBuffers ==
    /\ pc = "create_frame_buffers"
    /\ \E fail_at \in 0..Len(swapchain_images) :
         LET r == create_frame_buffers(render_pass, swapchain_images, fail_at)
         IN /\ viewport' = init_viewport(swapchain_images)
            /\ frame_buffers' = IF r.ok THEN r.frame_buffers ELSE frame_buffers
            /\ recreate_swapchain' = IF r.ok THEN FALSE ELSE recreate_swapchain
            /\ last_outcome' = IF r.ok THEN "FrameBuffersOk" ELSE "FrameBufferErr"
            /\ pc' = IF r.ok THEN "acquire_swapchain" ELSE "returned_err"
            /\ history' = [history EXCEPT
                   !.stale_pending = IF r.ok THEN FALSE ELSE @]
    /\ UNCHANGED <<envVars, sceneVars, mathVars, future, in_flight, window, quit, render_pass, render_pipeline,
                   vertex_buffer, swapchain, swapchain_images,
                   current_swapchain_image, frame_future, command_buffer,
                   frame_state, draw_result>>

\* render_scene -> draw_data, lines 431-435: acquire_swapchain()?, and
\* Ok(false) when it answers None; render_scene then sets the flag.
\* acquire_next_image(.., None) waits without a timeout until an image is
\* free, and an image a frame renders to is not free before the GPU has
\* finished that frame.
AcquireSwapchain ==
    /\ pc = "acquire_swapchain"
    /\ \E o \in AcquireOutcomes(swapchain) :
         LET r == acquire_swapchain(o, current_swapchain_image)
             ret == CASE r.ret = "Some" -> draw_result
                      [] r.ret = "None" -> "OkFalse"
                      [] OTHER -> "Err"
         IN /\ o.kind = "Ok" => in_flight < Len(swapchain_images)
            /\ current_swapchain_image' = r.current_swapchain_image
            /\ last_outcome' = CASE o.kind = "Ok" -> "AcquireOk"
                                 [] o.kind = "OutOfDate" -> "AcquireOutOfDate"
                                 [] OTHER -> "AcquireErr"
            /\ draw_result' = IF r.ret = "Some" THEN "Running" ELSE ret
            /\ recreate_swapchain' =
                   IF r.ret = "None" THEN render_scene(ret, recreate_swapchain)
                   ELSE recreate_swapchain
            /\ frame_state' = IF r.ret = "Some" THEN "ImageAcquired" ELSE frame_state
            /\ pc' = CASE r.ret = "Some" -> "record_commands"
                       [] r.ret = "None" -> "end_iteration"
                       [] OTHER -> "returned_err"
            /\ history' = [history EXCEPT
                   !.stale_pending = IF r.ret = "None" THEN TRUE ELSE @]
    /\ UNCHANGED <<envVars, sceneVars, mathVars, future, in_flight, window, quit, render_pass, render_pipeline,
                   vertex_buffer, frame_buffers, swapchain, swapchain_images,
                   viewport, frame_future, command_buffer>>

\* draw_data, lines 437-471: the command buffer is recorded.
RecordCommands ==
    /\ pc = "record_commands"
    /\ \E lib \in {"Ok", "Err"} :
         LET r == record_commands(frame_buffers, current_swapchain_image,
                                  render_pipeline, vertex_buffer, viewport, lib)
         IN /\ command_buffer' = r.command_buffer
            /\ last_outcome' = IF lib = "Ok" THEN "RecordOk" ELSE "RecordErr"
            /\ draw_result' = CASE r.ret = "Ok" -> draw_result
                                [] r.ret = "Err" -> "Err"
                                [] OTHER -> "Panic"
            /\ frame_state' = IF r.ret = "Ok" THEN "CommandsRecorded"
                              ELSE frame_state
            /\ pc' = CASE r.ret = "Ok" -> "then_execute"
                       [] r.ret = "Err" -> "returned_err"
                       [] OTHER -> "panicked"
    /\ UNCHANGED <<envVars, sceneVars, mathVars, future, in_flight, window, quit, recreate_swapchain, render_pass,
                   render_pipeline, vertex_buffer, frame_buffers, swapchain,
                   swapchain_images, current_swapchain_image, viewport,
                   frame_future, history>>

\* draw_data, lines 473-478: the future is taken, joined and the command
\* buffer is moved into then_execute.
ThenExecute ==
    /\ pc = "then_execute"
    /\ \E lib \in {"Ok", "Err"} :
         LET r == then_execute(frame_future, lib)
         IN /\ frame_future' = r.frame_future
            /\ future' = IF r.ret = "Ok"
                            THEN join_then_execute(frame_future,
                                                   current_swapchain_image,
                                                   command_buffer)
                          ELSE <<>>
            /\ command_buffer' = <<>>
            /\ last_outcome' = IF lib = "Ok" THEN "ExecuteOk" ELSE "ExecuteErr"
            /\ draw_result' = CASE r.ret = "Ok" -> draw_result
                                [] r.ret = "Err" -> "Err"
                                [] OTHER -> "Panic"
            /\ frame_state' = IF r.ret = "Ok" THEN "Submitted" ELSE frame_state
            /\ pc' = CASE r.ret = "Ok" -> "present"
                       [] r.ret = "Err" -> "returned_err"
                       [] OTHER -> "panicked"
    /\ UNCHANGED <<envVars, sceneVars, mathVars, in_flight, window, quit, recreate_swapchain, render_pass,
                   render_pipeline, vertex_buffer, frame_buffers, swapchain,
                   swapchain_images, current_swapchain_image, viewport,
                   history>>

\* draw_data, lines 479-503, and render_scene's use of the result. A flush
\* that succeeds has given the frame to the GPU.
PresentAndFlush ==
    /\ pc = "present"
    /\ \E o \in {"Ok", "OutOfDate", "Err"} :
         LET r == flush_result(o)
         IN /\ frame_future' = r.frame_future
            /\ future' = present_and_signal(future, current_swapchain_image)
            /\ last_outcome' = CASE o = "Ok" -> "FlushOk"
                                 [] o = "OutOfDate" -> "FlushOutOfDate"
                                 [] OTHER -> "FlushErr"
            /\ draw_result' = r.ret
            /\ recreate_swapchain' = render_scene(r.ret, recreate_swapchain)
            /\ frame_state' = IF o = "Ok" THEN "Presented" ELSE frame_state
            /\ in_flight' = IF o = "Ok" THEN in_flight + 1 ELSE in_flight
            /\ history' = [history EXCEPT
                   !.stale_pending = IF r.ret = "OkFalse" THEN TRUE ELSE @,
                   !.logged = r.logged]
            /\ pc' = IF r.ret \in {"OkTrue", "OkFalse"} THEN "end_iteration"
                     ELSE "returned_err"
    /\ UNCHANGED <<envVars, sceneVars, mathVars, window, quit, render_pass, render_pipeline,
                   vertex_buffer, frame_buffers, swapchain, swapchain_images,
                   current_swapchain_image, viewport, command_buffer>>

\* run, lines 276-281: the end of the iteration and the test of quit.
EndIteration ==
    /\ pc = "end_iteration"
    /\ frame_state' = "Idle"
    /\ pc' = IF quit THEN "returned_ok" ELSE "begin_frame"
    /\ UNCHANGED <<envVars, sceneVars, mathVars, future, in_flight, window, quit, recreate_swapchain, render_pass,
                   render_pipeline, vertex_buffer, frame_buffers, swapchain,
                   swapchain_images, current_swapchain_image, viewport,
                   frame_future, command_buffer, last_outcome, draw_result,
                   history>>

\* The GPU finishes the oldest frame it was given, at any time: nothing in
\* the loop waits for it (begin_frame's cleanup_finished does not block,
\* and join/then_execute only order the new frame after the old one).
GpuCompletes ==
    /\ in_flight > 0
    /\ in_flight' = in_flight - 1
    /\ UNCHANGED <<envVars, sceneVars, mathVars, future, pc, window, quit, recreate_swapchain, render_pass,
                   render_pipeline, vertex_buffer, frame_buffers, swapchain,
                   swapchain_images, current_swapchain_image, viewport,
                   frame_future, command_buffer, frame_state, last_outcome,
                   draw_result, history>>

Next ==
    \/ LoadScene
    \/ Run
    \/ BeginFrame
    \/ HandleEvents
    \/ RecreateSwapchain
    \/ CreateFrameBuffers
    \/ AcquireSwapchain
    \/ RecordCommands
    \/ ThenExecute
    \/ PresentAndFlush
    \/ EndIteration
    \/ GpuCompletes

Spec == Init /\ [][Next]_vars

\* The loop is one thread that always takes its next step.
FairSpec == Spec /\ WF_vars(Next)

(***************************************************************************)
(* The scene and its world, apart from the frame loop.                     *)
(***************************************************************************)
\* Every variable of the engine and its renderer.
engineVars ==
    <<pc, devices, capabilities, window, new_result, quit, recreate_swapchain,
      render_pass, render_pipeline, vertex_buffer, frame_buffers, swapchain,
      swapchain_images, current_swapchain_image, viewport, frame_future,
      command_buffer, future, frame_state, last_outcome, draw_result,
      in_flight, history>>

\* A default Scene and an empty World, before any engine is built.
InitScene ==
    /\ InitNew
    /\ devices = DefaultDevices
    /\ capabilities = DefaultCapabilities
    /\ window = WindowGone

\* scene.load(&mut world, filepath).
SceneLoad ==
    /\ \E asset \in SceneAssets, lib \in SceneLoadOutcomes :
         LET r == scene_load(entities, world, asset, lib)
         IN /\ world.created + Len(asset) <= MaxEntities
            /\ entities' = r.entities
            /\ world' = r.world
            /\ scene_last' =
                   [op |-> "load", ret |-> r.ret, asset |-> asset,
                    tracked_actors |->
                        IF r.ret = "Ok"
                          THEN scene_last.tracked_actors + Len(asset)
                          ELSE scene_last.tracked_actors]
    /\ UNCHANGED <<engineVars, mathVars>>

\* scene.unload(&mut world).
SceneUnload ==
    /\ LET r == scene_unload(entities, world)
       IN /\ entities' = r.entities
          /\ world' = r.world
          /\ scene_last' = [op |-> "unload", ret |-> r.ret, asset |-> <<>>,
                            tracked_actors |-> 0]
    /\ UNCHANGED <<engineVars, mathVars>>

\* Other code that holds the World deletes an entity of it.
WorldDeleteEntity ==
    /\ \E e \in world.alive :
         /\ world' = delete_entity(world, e).world
         /\ scene_last' = [scene_last EXCEPT !.op = "delete_entity",
                                             !.ret = "Ok", !.asset = <<>>]
    /\ UNCHANGED <<engineVars, mathVars, entities>>

NextScene ==
    \/ SceneLoad
    \/ SceneUnload
    \/ WorldDeleteEntity

SpecScene == InitScene /\ [][NextScene]_vars

(***************************************************************************)
(* Calls of the Vector trait, apart from the engine and the scene.         *)
(***************************************************************************)
\* No engine built, a default scene, and two vectors of one type on which
\* no method was called yet.
InitVector ==
    /\ pc = "start"
    /\ devices = DefaultDevices
    /\ capabilities = DefaultCapabilities
    /\ window = WindowGone
    /\ new_result = NewFailed("")
    /\ quit = FALSE
    /\ recreate_swapchain = FALSE
    /\ render_pass = "None"
    /\ render_pipeline = "None"
    /\ vertex_buffer = "None"
    /\ frame_buffers = <<>>
    /\ swapchain = NoSwapchain
    /\ swapchain_images = <<>>
    /\ current_swapchain_image = 0
    /\ viewport = <<>>
    /\ frame_future = "None"
    /\ command_buffer = <<>>
    /\ future = <<>>
    /\ frame_state = "Idle"
    /\ last_outcome = "None"
    /\ draw_result = "None"
    /\ in_flight = 0
    /\ history = NoHistory
    /\ SceneDefault
    /\ \E n \in VectorDims :
         \E a \in Vectors(n), b \in Vectors(n) :
            vector_call = [self |-> a, other |-> b, op |-> "none", ret |-> <<>>]

\* a.distance(b).
VectorDistance ==
    /\ vector_call' =
           [vector_call EXCEPT
               !.op = "distance",
               !.ret = <<distance(vector_call.self, vector_call.other)>>]
    /\ UNCHANGED <<engineVars, sceneVars>>

\* a.distance_squared(b).
VectorDistanceSquared ==
    /\ vector_call' =
           [vector_call EXCEPT
               !.op = "distance_squared",
               !.ret = <<distance_squared(vector_call.self, vector_call.other)>>]
    /\ UNCHANGED <<engineVars, sceneVars>>

NextVector ==
    \/ VectorDistance
    \/ VectorDistanceSquared

SpecVector == InitVector /\ [][NextVector]_vars

(***************************************************************************)
(* Properties of the frame loop.                                           *)
(***************************************************************************)
Terminated == pc \in {"returned_ok", "returned_err", "panicked", "load_failed"}

\* draw_data is being entered with the frame_buffers the engine holds.
DrawDataCalled == pc = "acquire_swapchain"

\* C1: after draw_data has returned Ok(false), draw_data is not called
\* again with the frame buffers the engine holds until recreate_swapchain
\* has returned Ok(true) and create_frame_buffers has rebuilt them, also
\* when the next poll delivers no Resized event.
C1_NoDrawWhileStale == ~(DrawDataCalled /\ history.stale_pending)

\* Every frame buffer was built from an image of the swapchain the
\* renderer holds, one per image.
FrameBuffersMatchSwapchain ==
    /\ Len(frame_buffers) = Len(swapchain_images)
    /\ \A i \in 1..Len(frame_buffers) :
           /\ frame_buffers[i].image = swapchain_images[i]
           /\ frame_buffers[i].image.swapchain = swapchain.id

\* C2: in every state from Engine::new onward, frame_buffers has as many
\* entries as swapchain_images and each entry was built from an image of
\* the swapchain the renderer currently holds.
C2_FrameBuffersAlwaysMatch == FrameBuffersMatchSwapchain

\* C3: once a CloseRequested event has been polled, run eventually ends.
C3_CloseNeverLost == history.close_delivered ~> Terminated

\* C4: after recreate_swapchain has returned Ok(false), draw_data is not
\* called until a recreation has returned Ok(true): the loop retries the
\* recreation in every following iteration, Resized event or not.
C4_RetryAfterSoftFailure ==
    (history.soft_fail_pending /\ pc \notin {"begin_frame", "handle_events"})
        => \/ pc = "recreate_swapchain"
           \/ Terminated

StaleOutcomes == {"AcquireOutOfDate", "FlushOutOfDate"}

\* The path Idle -> FrameBegun -> ImageAcquired -> CommandsRecorded ->
\* Submitted -> Presented -> Idle.
LegalFrameSteps ==
    {<<"Idle", "FrameBegun">>, <<"FrameBegun", "ImageAcquired">>,
     <<"ImageAcquired", "CommandsRecorded">>, <<"CommandsRecorded", "Submitted">>,
     <<"Submitted", "Presented">>, <<"Presented", "Idle">>}

\* The iteration ends early because acquire or flush reported out-of-date.
StaleFrameStep ==
    \/ <<frame_state, frame_state'>> = <<"FrameBegun", "Idle">>
           /\ last_outcome' = "AcquireOutOfDate"
    \/ <<frame_state, frame_state'>> = <<"Submitted", "Idle">>
           /\ last_outcome' = "FlushOutOfDate"

\* C5 as stated: absent a stale outcome, the frame scheduler only moves
\* along the legal path.
C5_OnlyLegalPath ==
    [][frame_state' # frame_state
           => (<<frame_state, frame_state'>> \in LegalFrameSteps \/ StaleFrameStep)]_vars

\* C5 as amended: absent a stale outcome the frame scheduler only moves
\* along the legal path, except that an iteration whose recreate_swapchain
\* returned Ok(false) goes from FrameBegun back to Idle without acquiring,
\* and an iteration whose flush failed with an error other than out-of-date
\* goes from Submitted back to Idle without Presented.
C5_LegalPathOrSkippedFrame ==
    [][frame_state' # frame_state
           => \/ <<frame_state, frame_state'>> \in LegalFrameSteps
              \/ StaleFrameStep
              \/ <<frame_state, frame_state'>> = <<"FrameBegun", "Idle">>
                     /\ last_outcome' = "UnsupportedDimensions"
              \/ <<frame_state, frame_state'>> = <<"Submitted", "Idle">>
                     /\ last_outcome' = "FlushErr"]_vars

\* An iteration has gone the whole path and is about to return to Idle.
C5_Witness ==
    pc = "end_iteration" /\ frame_state = "Presented" /\ history.loaded

\* C6 as stated: after any acquire, submit or present failure other than
\* out-of-date the error is logged, frame_future is a fresh future,
\* draw_data has returned Ok and run has not returned Err.
C6_AllFailuresSwallowed ==
    last_outcome \in {"AcquireErr", "ExecuteErr", "FlushErr"}
        => /\ history.logged
           /\ frame_future = "Now"
           /\ draw_result \in {"OkTrue", "OkFalse"}
           /\ pc # "returned_err"

\* C6 as amended: after a flush failure other than out-of-date the error
\* is logged, frame_future is a fresh future, draw_data has returned
\* Ok(true) and run goes on (to its next iteration, or returns Ok when quit
\* is set); an acquire failure other than out-of-date and a then_execute
\* failure are not logged: draw_data returns Err and run returns Err, after
\* a then_execute failure with frame_future left None.
C6_OnlyFlushFailuresSwallowed ==
    /\ last_outcome = "FlushErr"
           => /\ history.logged
              /\ frame_future = "Now"
              /\ draw_result = "OkTrue"
              /\ pc \in {"end_iteration", "begin_frame", "returned_ok"}
              /\ pc = "returned_ok" => quit
    /\ last_outcome = "AcquireErr"
           => ~history.logged /\ draw_result = "Err" /\ pc = "returned_err"
    /\ last_outcome = "ExecuteErr"
           => /\ ~history.logged /\ draw_result = "Err" /\ pc = "returned_err"
              /\ frame_future = "None"

\* A flush failure was logged and the loop has gone on to its next iteration.
C6_Witness ==
    last_outcome = "FlushErr" /\ pc = "begin_frame" /\ history.logged

\* C8 as stated: draw_data returns Ok(true) only when the present was
\* flushed successfully, Ok(false) exactly when acquire or flush reported
\* out-of-date, and render_scene sets recreate_swapchain on every false.
C8_TrueMeansFrameSucceeded ==
    pc = "end_iteration"
        => /\ draw_result = "OkTrue" => last_outcome = "FlushOk"
           /\ draw_result = "OkFalse" <=> last_outcome \in StaleOutcomes
           /\ draw_result = "OkFalse" => recreate_swapchain

\* C8 as amended: draw_data returns Ok(false) exactly when acquire or flush
\* reported out-of-date and Ok(true) in every other case in which it
\* returns Ok, which is a successful flush and also a flush failure that
\* was only logged; render_scene sets recreate_swapchain on every false.
C8_FalseMeansRebuild ==
    pc = "end_iteration"
        => /\ draw_result = "OkTrue" <=> last_outcome \in {"FlushOk", "FlushErr"}
           /\ draw_result = "OkFalse" <=> last_outcome \in StaleOutcomes
           /\ draw_result \in {"OkTrue", "OkFalse"}
           /\ draw_result = "OkFalse" => recreate_swapchain

\* draw_data has returned Ok(true) for a frame whose flush failed.
C8_Witness ==
    pc = "end_iteration" /\ draw_result = "OkTrue" /\ last_outcome = "FlushErr"

TransientOutcomes ==
    {"AcquireOutOfDate", "FlushOutOfDate", "UnsupportedDimensions"}

\* C9: a transient outcome (out-of-date at acquire or flush, unsupported
\* dimensions at recreation) never makes run return Err or panic: the
\* renderer answers Ok(false) and the loop goes on to its next iteration
\* (or returns Ok when quit is set).
C9_TransientContained ==
    last_outcome \in TransientOutcomes
        => /\ pc \in {"end_iteration", "begin_frame", "returned_ok"}
           /\ pc = "returned_ok" => quit
           /\ last_outcome \in StaleOutcomes => draw_result = "OkFalse"

\* The flush reported out-of-date and the loop has gone on to its next
\* iteration.
C9_Witness ==
    last_outcome = "FlushOutOfDate" /\ pc = "begin_frame" /\ ~quit

\* C10: recreate_swapchain returns Ok(false) on UnsupportedDimensions and
\* leaves swapchain and swapchain_images as they were; it returns Ok(true)
\* only when the recreation succeeded and then has replaced both together;
\* on any other creation error, or a window that is gone, it returns Err
\* with both unchanged. (run goes to create_frame_buffers on Ok(true), back
\* to the top of the loop on Ok(false), and returns on Err.)
C10_SoftFailureDistinguished ==
    [][pc = "recreate_swapchain"
           => /\ last_outcome' = "UnsupportedDimensions"
                  => /\ pc' = "begin_frame"
                     /\ swapchain' = swapchain
                     /\ swapchain_images' = swapchain_images
              /\ pc' = "create_frame_buffers"
                  => /\ last_outcome' = "RecreateOk"
                     /\ swapchain'.id # swapchain.id
                     /\ Len(swapchain_images') = swapchain'.num_images
                     /\ \A i \in 1..Len(swapchain_images') :
                            swapchain_images'[i].swapchain = swapchain'.id
              /\ last_outcome' = "RecreateOk" => pc' = "create_frame_buffers"
              /\ last_outcome' \in {"OtherErr", "WindowGone"}
                  => /\ pc' = "returned_err"
                     /\ swapchain' = swapchain
                     /\ swapchain_images' = swapchain_images]_vars

\* A recreation for a minimized window has failed softly, after an earlier
\* recreation had succeeded.
C10_Witness ==
    /\ last_outcome = "UnsupportedDimensions"
    /\ pc = "begin_frame"
    /\ window.alive /\ ZeroSized(window.size)
    /\ swapchain.id > 1

\* C11: when acquire_next_image reports out-of-date, draw_data returns
\* Ok(false) with no command buffer recorded and nothing submitted or
\* presented, frame_future, current_swapchain_image, swapchain and
\* swapchain_images are as they were, and render_scene sets
\* recreate_swapchain; the iteration ends without a draw.
C11_StaleAcquireSkipsFrame ==
    [][(pc = "acquire_swapchain" /\ last_outcome' = "AcquireOutOfDate")
           => /\ draw_result' = "OkFalse"
              /\ command_buffer' = <<>>
              /\ frame_state' = "FrameBegun"
              /\ in_flight' = in_flight
              /\ frame_future' = frame_future
              /\ current_swapchain_image' = current_swapchain_image
              /\ swapchain' = swapchain
              /\ swapchain_images' = swapchain_images
              /\ recreate_swapchain'
              /\ pc' = "end_iteration"]_vars

\* A loaded engine that has drawn image 1 in an earlier frame is told
\* out-of-date at its next acquire.
C11_Witness ==
    /\ last_outcome = "AcquireOutOfDate"
    /\ pc = "end_iteration"
    /\ history.loaded
    /\ frame_future = "Fence"
    /\ current_swapchain_image = 1
    /\ recreate_swapchain

\* C12: when the flush reports out-of-date, draw_data returns Ok(false)
\* and not Err, frame_future holds a fresh trivially-satisfied future
\* (never None), and render_scene has set recreate_swapchain before the
\* iteration ends.
C12_StaleFlushSetsFlag ==
    last_outcome = "FlushOutOfDate"
        => /\ draw_result = "OkFalse"
           /\ frame_future = "Now"
           /\ recreate_swapchain
           /\ pc \in {"end_iteration", "begin_frame", "returned_ok"}

\* The flush of a loaded engine's frame has reported out-of-date and the
\* iteration is about to end.
C12_Witness ==
    /\ last_outcome = "FlushOutOfDate"
    /\ pc = "end_iteration"
    /\ history.loaded
    /\ frame_state = "Submitted"

\* draw_data has recorded the command buffer of a frame.
CommandBufferRecorded == pc = "then_execute"

\* C13 as stated: the command buffer of a frame is begin render pass with
\* a single clear colour, then end render pass, with no draw command
\* between.
C13_NoDrawRecorded ==
    CommandBufferRecorded
        => /\ Len(command_buffer) = 2
           /\ command_buffer[1].cmd = "begin_render_pass"
           /\ Len(command_buffer[1].clear_values) = 1
           /\ command_buffer[2].cmd = "end_render_pass"

\* C13 as amended: the command buffer of a frame is begin render pass on
\* the frame buffer of the acquired image with a single clear colour, then
\* one draw with the render pipeline, the dynamic state's viewport and the
\* scene's vertex buffer, then end render pass.
C13_ClearDrawEnd ==
    CommandBufferRecorded
        => /\ Len(command_buffer) = 3
           /\ command_buffer[1].cmd = "begin_render_pass"
           /\ command_buffer[1].frame_buffer
                  = frame_buffers[current_swapchain_image + 1]
           /\ command_buffer[1].clear_values = <<ClearColour>>
           /\ command_buffer[2].cmd = "draw"
           /\ command_buffer[2].pipeline = render_pipeline
           /\ command_buffer[2].viewports = viewport
           /\ command_buffer[2].vertex_buffers = <<vertex_buffer>>
           /\ command_buffer[3].cmd = "end_render_pass"

\* A command buffer has been recorded for the frame buffer of image 1
\* after the swapchain was recreated.
C13_Witness ==
    /\ CommandBufferRecorded
    /\ current_swapchain_image = 1
    /\ swapchain.id > 1
    /\ Len(command_buffer) > 0

\* create_frame_buffers has just returned Ok, in load_scene or in run.
FrameBuffersJustBuilt == last_outcome \in {"Ok", "FrameBuffersOk"}

\* C14: right after the swapchain was created or recreated,
\* create_frame_buffers called with a Vulkan render pass returns, when it
\* returns Ok, a list with one entry per swapchain image, entry i built
\* from image i of the swapchain the renderer holds.
C14_OneFrameBufferPerImage ==
    FrameBuffersJustBuilt
        => /\ render_pass = "Vulkan"
           /\ Len(frame_buffers) = swapchain.num_images
           /\ FrameBuffersMatchSwapchain
           /\ \A i \in 1..Len(frame_buffers) :
                  /\ frame_buffers[i].kind = "Vulkan"
                  /\ frame_buffers[i].image.index = i - 1
                  /\ frame_buffers[i].image.dimensions = swapchain.dimensions

\* The frame buffers of a recreated swapchain of other dimensions than the
\* first one have been built.
C14_Witness ==
    /\ last_outcome = "FrameBuffersOk"
    /\ swapchain.id > 1
    /\ swapchain.dimensions # new_result.swapchain.dimensions
    /\ Len(frame_buffers) > 1

\* C15: a recreate_swapchain call made while the window has the dimensions
\* the swapchain already has leaves a swapchain with the same image count,
\* format and dimensions, however many such calls were made before.
C15_RecreateIdempotent ==
    [][(pc = "recreate_swapchain" /\ pc' # pc /\ window.alive
            /\ window.size = swapchain.dimensions)
           => /\ swapchain'.num_images = swapchain.num_images
              /\ swapchain'.format = swapchain.format
              /\ swapchain'.dimensions = swapchain.dimensions
              /\ swapchain'.present_mode = swapchain.present_mode
              /\ Len(swapchain_images') = Len(swapchain_images)
              /\ \A i \in 1..Len(swapchain_images') :
                     swapchain_images'[i].dimensions
                         = swapchain_images[i].dimensions]_vars

\* The first swapchain has been recreated for a window of the dimensions
\* it was created with.
C15_Witness ==
    /\ last_outcome = "RecreateOk"
    /\ pc = "create_frame_buffers"
    /\ swapchain.id > 1
    /\ swapchain.dimensions = new_result.swapchain.dimensions
    /\ window.size = swapchain.dimensions

\* C16: when draw_data submits a frame, at most one frame submitted
\* earlier is still unfinished on the GPU.
C16_OneFrameInFlight == pc = "present" => in_flight <= 1

\* The iteration is past the poll and has not yet entered draw_data or
\* has just left the recreation.
C17_DrawPhase ==
    {"acquire_swapchain", "record_commands", "then_execute", "present",
     "end_iteration"}

\* C17: however many Resized events one poll delivers, they set the one
\* flag, and run calls recreate_swapchain exactly once in that iteration
\* (and not at all when no Resized event was polled), after the poll and
\* before any drawing of the iteration.
C17_ResizeCoalesced ==
    /\ history.recreate_calls <= 1
    /\ history.recreate_calls = 1 => history.resized_polled >= 1
    /\ pc = "recreate_swapchain"
           => /\ history.recreate_calls = 0
              /\ history.resized_polled >= 1
              /\ recreate_swapchain
              /\ frame_state = "FrameBegun"
              /\ draw_result = "None"
    /\ (pc \in C17_DrawPhase /\ history.resized_polled >= 1)
           => history.recreate_calls = 1
    /\ pc = "handle_events" => history.recreate_calls = 0

\* A poll has delivered more than one Resized event and the one recreation
\* of the iteration has been made.
C17_Witness ==
    /\ history.resized_polled > 1
    /\ history.recreate_calls = 1
    /\ pc = "acquire_swapchain"
    /\ history.loaded

\* C19: frame_buffers never holds a partial set; create_frame_buffers
\* returns Err and no list when the build for any one image fails or when
\* the render pass is RenderPass::None; after such a failure in run the
\* frame_buffers field still holds the list it held (built for the
\* swapchain before the recreation) and run returns Err without drawing.
C19_NoPartialFrameBuffers ==
    /\ Len(frame_buffers) \in {0, Len(swapchain_images)}
    /\ \A i \in 1..Len(frame_buffers) :
           /\ frame_buffers[i].image.index = i - 1
           /\ frame_buffers[i].image.swapchain = frame_buffers[1].image.swapchain
    /\ \A fail_at \in 1..Len(swapchain_images) :
           LET r == create_frame_buffers("Vulkan", swapchain_images, fail_at)
           IN ~r.ok /\ r.frame_buffers = <<>>
    /\ LET r == create_frame_buffers("None", swapchain_images, 0)
       IN ~r.ok /\ r.frame_buffers = <<>>
    /\ last_outcome = "FrameBufferErr"
           => /\ pc \in {"returned_err", "panicked"}
              /\ frame_state \in {"Idle", "FrameBegun"}
              /\ pc = "returned_err"
                     => \A i \in 1..Len(frame_buffers) :
                            frame_buffers[i].image.swapchain # swapchain.id
    /\ (render_pass # "Vulkan" /\ history.recreate_calls = 1)
           => pc \in {"create_frame_buffers", "returned_err", "begin_frame"}

\* In run the frame buffers of a recreated swapchain could not be built:
\* run has returned Err and the engine still holds the full old list.
C19_Witness ==
    /\ last_outcome = "FrameBufferErr"
    /\ pc = "returned_err"
    /\ history.loaded
    /\ Len(frame_buffers) = Len(swapchain_images)
    /\ swapchain.id > 1

\* C20: begin_frame stores a trivially-satisfied future only when
\* frame_future is None; a future that is there is left in place; after
\* begin_frame frame_future is Some, and a second begin_frame leaves it.
C20_BeginFrameKeepsFuture ==
    [][(pc = "begin_frame" /\ pc' # pc)
           => /\ frame_future' # "None"
              /\ frame_future = "None" => frame_future' = "Now"
              /\ frame_future # "None" => frame_future' = frame_future
              /\ begin_frame(frame_future') = frame_future']_vars

\* begin_frame has left the fence future of the last frame in place, the
\* iteration ended at the recreation without a draw, and begin_frame is
\* about to be called again.
C20_Witness ==
    /\ pc = "begin_frame"
    /\ last_outcome = "UnsupportedDimensions"
    /\ frame_future = "Fence"

\* Engine::run has been entered (and may have ended by a return).
InRun ==
    pc \in {"begin_frame", "handle_events", "recreate_swapchain",
            "create_frame_buffers", "acquire_swapchain", "record_commands",
            "then_execute", "present", "end_iteration", "returned_ok",
            "returned_err"}

C23_FrameBuffersCallReturned ==
    last_outcome \in {"Ok", "FrameBuffersOk", "FrameBufferErr"}

\* C23: after every Renderer::create_frame_buffers call the viewport has
\* the dimensions of image 0 of the swapchain the renderer holds, and at
\* every draw_data call of a loaded engine (and while its commands are
\* recorded) the viewport has the dimensions of the swapchain's images.
C23_ViewportMatchesSwapchain ==
    /\ C23_FrameBuffersCallReturned
           => viewport = <<swapchain_images[1].dimensions>>
    /\ (history.loaded /\ pc \in {"acquire_swapchain", "record_commands"})
           => /\ Len(viewport) = 1
              /\ \A i \in 1..Len(swapchain_images) :
                     viewport[1] = swapchain_images[i].dimensions
              /\ viewport[1] = swapchain.dimensions

\* A loaded engine calls draw_data after a recreation has changed the
\* dimensions of the swapchain.
C23_Witness ==
    /\ history.loaded
    /\ pc = "acquire_swapchain"
    /\ swapchain.id > 1
    /\ swapchain.dimensions # new_result.swapchain.dimensions
    /\ viewport = <<swapchain.dimensions>>

\* The recreation of this iteration did not lead to rebuilt frame buffers.
C24_RecreationFailed ==
    last_outcome \in {"UnsupportedDimensions", "OtherErr", "WindowGone",
                      "FrameBufferErr"}

\* C24: in an iteration whose poll delivered a Resized event,
\* recreate_swapchain is called before render_scene; draw_data is called
\* only after the recreation returned Ok(true) and the frame buffers were
\* rebuilt for the new swapchain; otherwise the iteration draws nothing.
C24_ResizeBeforeDraw ==
    history.resized_polled >= 1
        => /\ pc = "recreate_swapchain"
                  => frame_state = "FrameBegun" /\ draw_result = "None"
           /\ pc = "acquire_swapchain"
                  => /\ last_outcome = "FrameBuffersOk"
                     /\ ~recreate_swapchain
           /\ pc \in C17_DrawPhase
                  => /\ history.recreate_calls = 1
                     /\ FrameBuffersMatchSwapchain
                     /\ swapchain.id > 1
           /\ C24_RecreationFailed
                  => /\ draw_result = "None"
                     /\ frame_state \in {"Idle", "FrameBegun"}
                     /\ pc \in {"begin_frame", "returned_err"}

\* A Resized event was polled, the swapchain recreated, the frame buffers
\* rebuilt, and the frame is being recorded.
C24_Witness ==
    /\ history.resized_polled >= 1
    /\ pc = "record_commands"
    /\ history.loaded
    /\ history.recreate_calls = 1

\* draw_data has built its whole chain and flushed it.
C25_ChainFlushed == last_outcome \in {"FlushOk", "FlushOutOfDate", "FlushErr"}

\* C25: the chain of one draw_data call is: the previous frame_future
\* joined with the acquire future, then the command buffer executed, then
\* the present, then the fence, which on success is the new frame_future;
\* the image presented is the image acquired in this call, and the
\* commands render into the frame buffer of that index.
C25_SubmissionOrdered ==
    /\ pc = "present"
           => /\ Len(future) = 2
              /\ frame_future = "None"
    /\ (pc = "present" \/ C25_ChainFlushed)
           => /\ Len(future) >= 2
              /\ future[1].op = "join"
              /\ future[1].first \in {"Now", "Fence"}
              /\ future[1].second.acquire_future = current_swapchain_image
              /\ future[2].op = "then_execute"
              /\ Len(future[2].command_buffer) > 0
              /\ future[2].command_buffer[1].frame_buffer
                     = frame_buffers[current_swapchain_image + 1]
              /\ frame_buffers[current_swapchain_image + 1].image.index
                     = current_swapchain_image
    /\ C25_ChainFlushed
           => /\ Len(future) = 4
              /\ future[3].op = "then_swapchain_present"
              /\ future[3].image = current_swapchain_image
              /\ future[3].image = future[1].second.acquire_future
              /\ future[4].op = "then_signal_fence_and_flush"
    /\ last_outcome = "FlushOk" => frame_future = "Fence"

\* A second frame, on image 1, has joined the fence of the first frame
\* and has been flushed.
C25_Witness ==
    /\ last_outcome = "FlushOk"
    /\ pc = "end_iteration"
    /\ current_swapchain_image = 1
    /\ Len(future) > 0
    /\ future[1].first = "Fence"

\* C26: recreate_swapchain does not wait for or cancel the frames the GPU
\* still works on; whatever it returns it leaves frame_future,
\* current_swapchain_image, the viewport, the device and the queue as they
\* were, and on success it has replaced swapchain and swapchain_images.
C26_RecreateLeavesGpuWork ==
    [][(pc = "recreate_swapchain" /\ pc' # pc)
           => /\ in_flight' = in_flight
              /\ frame_future' = frame_future
              /\ current_swapchain_image' = current_swapchain_image
              /\ viewport' = viewport
              /\ new_result'.device = new_result.device
              /\ new_result'.queue_family = new_result.queue_family
              /\ last_outcome' = "RecreateOk"
                     => /\ swapchain' # swapchain
                        /\ swapchain_images' # swapchain_images]_vars

\* The swapchain was recreated while the GPU still worked on a frame
\* rendered to image 1 of the old swapchain.
C26_Witness ==
    /\ last_outcome = "RecreateOk"
    /\ pc = "create_frame_buffers"
    /\ frame_future = "Fence"
    /\ in_flight > 0
    /\ current_swapchain_image = 1

\* draw_data has returned Ok in this iteration.
C27_DrawDataReturnedOk == draw_result \in {"OkTrue", "OkFalse"}

\* C27: frame_future is Some where draw_data takes and unwraps it, and
\* Some again whenever draw_data has returned Ok; the unwrap never panics.
C27_FutureAlwaysThere ==
    /\ pc \in {"handle_events", "recreate_swapchain", "create_frame_buffers",
                "acquire_swapchain", "record_commands", "then_execute"}
           => frame_future # "None"
    /\ C27_DrawDataReturnedOk => frame_future # "None"
    /\ ~(draw_result = "Panic" /\ last_outcome \in {"ExecuteOk", "ExecuteErr"})

\* After a stale frame, a skipped iteration and a recreation, draw_data is
\* about to take the future.
C27_Witness ==
    /\ pc = "then_execute"
    /\ history.loaded
    /\ swapchain.id > 1
    /\ history.soft_fail_pending
    /\ frame_future = "Now"

\* C28: the image index acquired is a valid index into the frame_buffers
\* list draw_data was given, also for an engine on which load_scene was
\* never called.
C28_IndexInBounds ==
    pc = "record_commands" => current_swapchain_image < Len(frame_buffers)

(***************************************************************************)
(* Properties of VulkanRendererState::new (checked under SpecNew).         *)
(***************************************************************************)
\* A device has a queue family that supports graphics and presentation to
\* the surface.
DeviceQualifies(dev) ==
    \E k \in 1..Len(dev) : dev[k].graphics /\ dev[k].surface_support = "true"

\* new failed in a library call, not in its choice of device and queue.
LibraryFailure ==
    new_result.err \in {"InstanceErr", "DeviceErr", "SwapchainErr",
                        "Window no longer exists"}

\* C7 as stated: when some enumerated device qualifies, new succeeds with
\* the first device that qualifies, whatever the devices before it.
C7_FirstQualifyingDevice ==
    (pc # "start" /\ ~LibraryFailure
          /\ \E i \in 1..Len(devices) : DeviceQualifies(devices[i]))
        => /\ new_result.ok
           /\ DeviceQualifies(devices[new_result.physical_device])
           /\ \A j \in 1..(new_result.physical_device - 1) :
                  ~DeviceQualifies(devices[j])

\* C7 as amended: new takes the first enumerated device and no other: it
\* succeeds exactly when that device has a qualifying queue family, and
\* then uses the first such family of it; when the first device has none,
\* new fails with "No graphics queues available!", also when a later
\* device qualifies.
C7_FirstDeviceOnly ==
    (pc # "start" /\ ~LibraryFailure)
        => /\ new_result.ok <=> (Len(devices) > 0 /\ DeviceQualifies(devices[1]))
           /\ new_result.ok
                  => /\ new_result.physical_device = 1
                     /\ LET qf == new_result.queue_family
                        IN /\ qf \in 1..Len(devices[1])
                           /\ devices[1][qf].graphics
                           /\ devices[1][qf].surface_support = "true"
                           /\ \A k \in 1..(qf - 1) :
                                  ~(devices[1][k].graphics
                                      /\ devices[1][k].surface_support = "true")
           /\ (Len(devices) > 0 /\ ~DeviceQualifies(devices[1]))
                  => new_result.err = "No graphics queues available!"
           /\ Len(devices) = 0 => new_result.err = "No devices available!"

\* new has failed on a first device without a qualifying queue family
\* although the second device has one.
C7_Witness ==
    /\ pc = "init_failed"
    /\ Len(devices) = 2
    /\ ~DeviceQualifies(devices[1])
    /\ DeviceQualifies(devices[2])
    /\ new_result.err = "No graphics queues available!"

\* No queue family of any enumerated device supports graphics and
\* presentation; a surface-support query that fails counts as unsupported.
NoQualifyingQueueFamily ==
    \A i \in 1..Len(devices) : \A k \in 1..Len(devices[i]) :
        ~(devices[i][k].graphics /\ devices[i][k].surface_support = "true")

\* C18: once the instance and the surface exist, new returns
\* Err("No devices available!") when no device is enumerated and
\* Err("No graphics queues available!") when devices are enumerated and no
\* queue family supports graphics and presentation; in both cases
\* Engine::new returns Err and there is no Engine, logical device or
\* swapchain.
C18_SetupFailuresAreErrors ==
    (pc # "start" /\ new_result.err # "InstanceErr")
        => /\ Len(devices) = 0 => new_result.err = "No devices available!"
           /\ (Len(devices) > 0 /\ NoQualifyingQueueFamily)
                  => new_result.err = "No graphics queues available!"
           /\ new_result.err \in {"No devices available!",
                                  "No graphics queues available!"}
                  => /\ ~new_result.ok
                     /\ pc = "init_failed"
                     /\ ~new_result.device
                     /\ new_result.swapchain = NoSwapchain
                     /\ swapchain = NoSwapchain
                     /\ swapchain_images = <<>>
                     /\ frame_future = "None"

\* new has failed on a device whose only graphics queue family answered
\* the surface-support query with an error.
C18_Witness ==
    /\ pc = "init_failed"
    /\ new_result.err = "No graphics queues available!"
    /\ Len(devices) > 0
    /\ Len(devices[1]) > 0
    /\ devices[1][1].graphics
    /\ devices[1][1].surface_support = "err"

\* C22: the swapchain new creates has the first of the surface's
\* supported formats, the Mailbox present mode exactly when the surface
\* supports it and Fifo otherwise, and min_image_count + 1 images.
C22_SwapchainParameters ==
    new_result.ok
        => /\ swapchain = new_result.swapchain
           /\ swapchain.format = capabilities.supported_formats[1]
           /\ swapchain.present_mode = "Mailbox"
                  <=> "Mailbox" \in capabilities.present_modes
           /\ swapchain.present_mode = "Fifo"
                  <=> "Mailbox" \notin capabilities.present_modes
           /\ swapchain.num_images = capabilities.min_image_count + 1
           /\ Len(swapchain_images) = capabilities.min_image_count + 1

\* new has succeeded on a surface that offers two formats and Immediate
\* but not Mailbox.
C22_Witness ==
    /\ pc = "constructed"
    /\ new_result.ok
    /\ Len(capabilities.supported_formats) > 1
    /\ "Immediate" \in capabilities.present_modes
    /\ capabilities.min_image_count > 1
    /\ swapchain.present_mode = "Fifo"

(***************************************************************************)
(* Properties of Scene::load and Scene::unload (checked under SpecScene).  *)
(***************************************************************************)
Tracked == {entities[i] : i \in 1..Len(entities)}

\* C29: when unload returns Ok the tracked list is empty and every entity
\* it tracked is deleted; when it returns Err the entities not yet deleted
\* are still tracked: no entity alive in the world is untracked.
C29_NoLiveEntityUntracked ==
    /\ (scene_last.op = "unload" /\ scene_last.ret = "Ok")
           => entities = <<>> /\ world.alive = {}
    /\ \A e \in world.alive : e \in Tracked

\* C30: a load that returns Err creates no entity and leaves the tracked
\* list as it was; a load that returns Ok creates one entity per
\* top-level actor of the asset, none for children, and appends them in
\* asset order; after successful loads without an unload the scene tracks
\* the sum of their top-level actor counts.
C30_LoadAllOrNothing ==
    [][scene_last'.op = "load"
           => /\ scene_last'.ret = "Err"
                     => entities' = entities /\ world' = world
              /\ scene_last'.ret = "Ok"
                     => LET n == Len(scene_last'.asset)
                        IN /\ Len(entities') = Len(entities) + n
                           /\ SubSeq(entities', 1, Len(entities)) = entities
                           /\ \A i \in 1..n :
                                  /\ entities'[Len(entities) + i]
                                         = world.created + i
                                  /\ entities'[Len(entities) + i]
                                         \in world'.alive \ world.alive
                           /\ world'.created = world.created + n
                           /\ Cardinality(world'.alive)
                                  = Cardinality(world.alive) + n
              /\ Len(entities') = scene_last'.tracked_actors]_vars

\* A second load has returned Ok for an asset of two actors, the first of
\* them with a child, and the scene tracks the actors of both loads.
C30_Witness ==
    /\ scene_last.op = "load"
    /\ scene_last.ret = "Ok"
    /\ Len(scene_last.asset) > 1
    /\ Len(scene_last.asset[1].children) > 0
    /\ Len(entities) > Len(scene_last.asset)
(***************************************************************************)
(* Properties of the Vector trait (checked under SpecVector).              *)
(***************************************************************************)
\* C31: for vectors a and b of one type, distance_squared(a, b) equals
\* magnitude_squared(b - a), which is the square of distance(a, b).
C31_DistanceSquared ==
    vector_call.op = "distance_squared"
        => /\ vector_call.ret
                 = <<magnitude_squared(sub(vector_call.other, vector_call.self))>>
           /\ vector_call.ret
                 = <<Squared(distance(vector_call.self, vector_call.other))>>
====
